---- MODULE Spec2Model ----
(***************************************************************************)
(* Command-attribute registry, key-shape classifier and multi-key          *)
(* decomposer of src/attribute/attribute.rs, and the Mix command value      *)
(* object with its execution context (src/cmd/mix.rs, src/tikv/mix.rs).    *)
(*                                                                         *)
(* Byte strings (Vec<u8>, Bytes) are modelled as strings; BadUtf8 is the   *)
(* one byte string that is not valid UTF-8.  Rust indices are 0-based, the *)
(* sequences here are 1-based: Rust's multi[i] is multi[i + 1].  A Vec     *)
(* filled while iterating a HashMap has an unspecified order and no        *)
(* duplicates, and is modelled as a set.                                   *)
(***************************************************************************)
EXTENDS Integers, Sequences, FiniteSets, TLC

VARIABLES
  CMD_ATTRS,   \* the command-attribute registry (static after construction)
  pc,          \* "idle", or the call whose result the state holds
  argv,        \* the argument vector of the call
  cmd,         \* the command name of the call
  ret,         \* result of split_multikeys_command / check_multikey_command_arguments
  is_write,    \* result of is_write_command
  cmds,        \* the three lists main computes
  mix,         \* the Mix value object of the request
  txn,         \* the transaction handle given to redis_command ("None" or a handle)
  calls,       \* the calls the store client has received
  txn_ops,     \* transactions opened or committed by the execution context
  response     \* what redis_command / apply ended with

attrVars == <<argv, cmd, ret, is_write, cmds>>
mixVars == <<mix, txn, calls, txn_ops, response>>
vars == <<CMD_ATTRS, pc, argv, cmd, ret, is_write, cmds, mix, txn, calls, txn_ops, response>>

(* ------------------------------ bounds --------------------------------- *)
\* largest key position (first_key, last_key) of an added registry entry
MaxKey == 2
\* largest step of an added registry entry
MaxStep == 2
\* largest number of arguments after the command name
MaxLen == 4
\* largest number of keys of a Mix request
MaxKeys == 2

(* --------------------------- byte strings ------------------------------ *)
BadUtf8 == "\\xff"

\* String::from_utf8: fails on a byte string that is not valid UTF-8
from_utf8(b) == IF b = BadUtf8 THEN [ok |-> FALSE, s |-> ""] ELSE [ok |-> TRUE, s |-> b]

(* ----------------------------- registry -------------------------------- *)
CmdAttr(n, a, f, fk, lk, st) ==
  [name |-> n, arity |-> a, flags |-> f, first_key |-> fk, last_key |-> lk, step |-> st]

\* the two entries the source inserts
SourceAttrs ==
  ("append" :> CmdAttr("append", 3, "write", 1, 1, 1)) @@
  ("cad" :> CmdAttr("cad", 3, "write", 1, 1, 1))

\* names of the commands the registry is extended with ("continue adding
\* other commands"): the introspection command, a rewritten one, a plain one
AddedNames == {"command", "mset", "get"}
Flags == {"write", "readonly", "admin"}
Arities == {-1}

AddedAttrs(n) ==
  { CmdAttr(n, a, f, fk, lk, st) :
      a \in Arities, f \in Flags, fk \in 0..MaxKey, lk \in (-1)..MaxKey, st \in 0..MaxStep }

\* the registry of the source, and every registry that adds one command to it
Registries ==
  {SourceAttrs} \cup
  UNION { { (n :> a) @@ SourceAttrs : a \in AddedAttrs(n) } : n \in AddedNames }

REWRITE_CMD == ("mset" :> "set") @@ ("mget" :> "get")

(* ------------------------- key-shape classifier ------------------------ *)
\* a classifier that forgets the fixed-multi-key branch
get_not_supported_cmds_no_fixed ==
  { n \in DOMAIN CMD_ATTRS :
      LET attrs == CMD_ATTRS[n] IN
        IF attrs.first_key = 1 /\ attrs.last_key = 1 THEN FALSE
        ELSE IF attrs.first_key = 0 THEN n # "command"
        ELSE FALSE }

get_not_supported_cmds ==
  { n \in DOMAIN CMD_ATTRS :
      LET attrs == CMD_ATTRS[n] IN
        IF attrs.first_key = 1 /\ attrs.last_key = 1 THEN FALSE
        ELSE IF attrs.first_key = 0 THEN n # "command"
        ELSE attrs.last_key # attrs.first_key /\ attrs.last_key > 0 }

get_single_key_cmds ==
  [kind |-> "Ok",
   v |-> { n \in DOMAIN CMD_ATTRS :
             CMD_ATTRS[n].first_key = 1 /\ CMD_ATTRS[n].last_key = 1 }]

\* what the loop body of get_optional_multi_key_cmds does with one entry
OptionalStep(attrs) ==
  IF attrs.first_key = 1 /\ attrs.last_key = 1 THEN "continue"
  ELSE IF attrs.first_key = 0 THEN "continue"
  ELSE IF attrs.last_key # attrs.first_key /\ attrs.last_key > 0 THEN "continue"
  ELSE IF attrs.first_key = 1 /\ attrs.last_key = -1 /\ attrs.step >= 1 THEN "push"
  ELSE "err"

get_optional_multi_key_cmds ==
  IF \E n \in DOMAIN CMD_ATTRS : OptionalStep(CMD_ATTRS[n]) = "err"
  THEN [kind |-> "Err", v |-> {}]
  ELSE [kind |-> "Ok",
        v |-> { n \in DOMAIN CMD_ATTRS : OptionalStep(CMD_ATTRS[n]) = "push" }]

\* a default of "not a write" for names the registry does not know
is_write_command_unknown_reads(c) ==
  IF c \in DOMAIN CMD_ATTRS
  THEN IF CMD_ATTRS[c].flags = "readonly" THEN FALSE ELSE TRUE
  ELSE FALSE

is_write_command(c) ==
  IF c \in DOMAIN CMD_ATTRS
  THEN IF CMD_ATTRS[c].flags = "readonly" THEN FALSE ELSE TRUE
  ELSE TRUE

(* --------------------------- decomposer -------------------------------- *)
NoRet == [kind |-> "None", err |-> "", arg |-> "", pass |-> <<>>, subs |-> <<>>]
OkRet(p, s) == [kind |-> "Ok", err |-> "", arg |-> "", pass |-> p, subs |-> s]
ErrRet(e, a) == [kind |-> "Err", err |-> e, arg |-> a, pass |-> <<>>, subs |-> <<>>]
PanicRet == [kind |-> "Panic", err |-> "", arg |-> "", pass |-> <<>>, subs |-> <<>>]

\* a decomposer that skips the rewrite table
NoRewrite(multi) == multi

\* lines 141-144: the local copy with multi[0] replaced by its rewrite target
Rewrite(multi) ==
  IF multi[1] \in DOMAIN REWRITE_CMD
  THEN <<REWRITE_CMD[multi[1]]>> \o Tail(multi)
  ELSE multi

\* a stride walk that drops an incomplete last key group instead of failing
RECURSIVE SplitWalkDropsTail(_, _, _, _)
SplitWalkDropsTail(multi, cmd_attr, i, result) ==
  IF i >= Len(multi) THEN OkRet(<<>>, result)
  ELSE IF Len(multi) - i < cmd_attr.step THEN OkRet(<<>>, result)
  ELSE SplitWalkDropsTail(multi, cmd_attr, i + cmd_attr.step,
                          Append(result,
                                 SubSeq(multi, 1, cmd_attr.first_key) \o
                                 SubSeq(multi, i + 1, i + cmd_attr.step)))

\* a stride walk that puts each sub-command in front of the earlier ones
RECURSIVE SplitWalkPrepends(_, _, _, _)
SplitWalkPrepends(multi, cmd_attr, i, result) ==
  IF i >= Len(multi) THEN OkRet(<<>>, result)
  ELSE IF Len(multi) - i < cmd_attr.step
  THEN IF from_utf8(multi[i + 1]).ok
       THEN ErrRet("MalformedArguments", multi[i + 1])
       ELSE ErrRet("FromUtf8Error", "")
  ELSE SplitWalkPrepends(multi, cmd_attr, i + cmd_attr.step,
                         << SubSeq(multi, 1, cmd_attr.first_key) \o
                            SubSeq(multi, i + 1, i + cmd_attr.step) >> \o result)

\* lines 156-173: the stride walk from Rust index i, result accumulated so far
RECURSIVE SplitWalk(_, _, _, _)
SplitWalk(multi, cmd_attr, i, result) ==
  IF i >= Len(multi) THEN OkRet(<<>>, result)
  ELSE IF Len(multi) - i < cmd_attr.step
  THEN IF from_utf8(multi[i + 1]).ok
       THEN ErrRet("MalformedArguments", multi[i + 1])
       ELSE ErrRet("FromUtf8Error", "")
  ELSE SplitWalk(multi, cmd_attr, i + cmd_attr.step,
                 Append(result,
                        SubSeq(multi, 1, cmd_attr.first_key) \o
                        SubSeq(multi, i + 1, i + cmd_attr.step)))

split_multikeys_command(multi) ==
  IF Len(multi) = 0 THEN PanicRet
  ELSE IF ~from_utf8(multi[1]).ok THEN ErrRet("FromUtf8Error", "")
  ELSE IF from_utf8(multi[1]).s \notin DOMAIN CMD_ATTRS
  THEN ErrRet("CommandNotFound", multi[1])
  ELSE LET cmd_attr == CMD_ATTRS[from_utf8(multi[1]).s]
           m == Rewrite(multi)
       IN IF Len(m) <= cmd_attr.first_key + 1 THEN OkRet(m, <<>>)
          ELSE IF Len(m) - cmd_attr.first_key <= cmd_attr.step THEN OkRet(m, <<>>)
          ELSE IF cmd_attr.step = 0 THEN PanicRet
          ELSE SplitWalk(m, cmd_attr, cmd_attr.first_key, <<>>)

\* lines 183-186: the number of iterations of the stride loop
RECURSIVE KeyNum(_, _, _)
KeyNum(i, len, step) ==
  IF i >= len THEN 0 ELSE 1 + KeyNum(i + step, len, step)

check_multikey_command_arguments(c, multi) ==
  IF c \notin DOMAIN CMD_ATTRS THEN ErrRet("CommandNotFound", c)
  ELSE LET cmd_attr == CMD_ATTRS[c] IN
    IF cmd_attr.step = 0 THEN PanicRet
    ELSE IF KeyNum(cmd_attr.first_key, Len(multi), cmd_attr.step) > 1
         THEN ErrRet("OnlyOneKey", "")
         ELSE OkRet(<<>>, <<>>)

(* ----------------------- Mix value object ------------------------------ *)
\* Frame::array(): the empty array frame
EmptyFrame == <<>>

\* Mix::default
MixDefault == [cmd |-> "", keys |-> <<>>, valid |-> TRUE, frame |-> EmptyFrame]
\* no request has been parsed
NoMix == [cmd |-> "", keys |-> <<>>, valid |-> FALSE, frame |-> EmptyFrame]
NoResult == [kind |-> "None", v |-> ""]

\* String::from_utf8_lossy: invalid bytes become the replacement character
from_utf8_lossy(b) == IF b = BadUtf8 THEN "U+FFFD" ELSE b

\* Parse::next_string: the next element, or the exhaustion signal
next_string(parse) ==
  IF parse.rest = <<>>
  THEN [ok |-> FALSE, s |-> "", parse |-> parse]
  ELSE [ok |-> TRUE, s |-> Head(parse.rest),
        parse |-> [parse EXCEPT !.rest = Tail(parse.rest)]]

\* the while-let loop of parse_frames: add_key for every string still to come
RECURSIVE ConsumeKeys(_, _)
ConsumeKeys(m, parse) ==
  LET n == next_string(parse) IN
    IF n.ok
    THEN ConsumeKeys([m EXCEPT !.keys = Append(m.keys, n.s)], n.parse)
    ELSE m

parse_frames(c, parse) ==
  ConsumeKeys([MixDefault EXCEPT !.cmd = c, !.frame = parse.frame], parse)

parse_argv(av) ==
  IF av = <<>>
  THEN [cmd |-> "", keys |-> <<>>, valid |-> FALSE, frame |-> EmptyFrame]
  ELSE [cmd |-> "", keys |-> [i \in 1..Len(av) |-> from_utf8_lossy(av[i])],
        valid |-> TRUE, frame |-> EmptyFrame]

(* ------------------------- execution context --------------------------- *)
\* kvstore table the requests are routed to
TableId == 153

\* what the collaborators of do_async_redis_command can answer: get_client
\* fails, encode_array fails, the store call fails, the store call succeeds
Outcomes == {"NoClient", "EncodeErr", "StoreErr", "StoreOk"}

\* do_async_redis_command: the store call it makes (none when get_client or
\* encode_array failed first); the client gets no transaction handle
StoreCalls(o, table_id, c, meta_key, frame) ==
  IF o \in {"StoreErr", "StoreOk"}
  THEN << [table_id |-> table_id, cmd |-> c, key |-> meta_key,
           request |-> [resp |-> frame], txn |-> "None"] >>
  ELSE <<>>

do_async_redis_command(o, table_id, c, meta_key, frame) ==
  IF o = "NoClient" THEN [kind |-> "Err", v |-> "client"]
  ELSE IF o = "EncodeErr" THEN [kind |-> "Err", v |-> "RTError::Owned"]
  ELSE IF o = "StoreErr" THEN [kind |-> "Err", v |-> "store"]
  ELSE [kind |-> "Ok", v |-> "Frame::Raw"]

\* Mix::redis_command: keys().get(0).unwrap() panics on an empty key list; the
\* txn parameter is not used
redis_command(m, t, o) ==
  IF m.keys = <<>>
  THEN [result |-> [kind |-> "Panic", v |-> "unwrap on None"], calls |-> <<>>]
  ELSE [result |-> do_async_redis_command(o, TableId, m.cmd, m.keys[1], m.frame),
        calls |-> StoreCalls(o, TableId, m.cmd, m.keys[1], m.frame)]

MixCmds == {"get", "set"}
KeyStrings == {"k", "v"}
Handles == {"None", "t1", "t2"}

(* ------------------------------ inputs --------------------------------- *)
Args == {"k", BadUtf8}
RECURSIVE SeqsUpTo(_, _)
SeqsUpTo(S, n) ==
  IF n = 0 THEN {<<>>}
  ELSE LET prev == SeqsUpTo(S, n - 1) IN
       prev \cup { Append(s, x) : s \in {t \in prev : Len(t) = n - 1}, x \in S }

\* first elements of an argument vector: registered, unregistered, not UTF-8
Heads == DOMAIN CMD_ATTRS \cup {"unknownverb", BadUtf8}
Argvs == {<<>>} \cup { <<h>> \o t : h \in Heads, t \in SeqsUpTo(Args, MaxLen) }

NoCmds == [not_supported |-> {}, single_key |-> [kind |-> "None", v |-> {}],
           optional_multi_key |-> [kind |-> "None", v |-> {}], panicked |-> FALSE]

(* ---------------------- key shapes named by the claims ------------------ *)
Keyless(a) == a.first_key = 0
SingleKey(a) == a.first_key = 1 /\ a.last_key = 1
VariableMultiKey(a) == a.first_key = 1 /\ a.last_key = -1 /\ a.step >= 1
FixedMultiKey(a) == a.last_key # a.first_key /\ a.last_key > 0

\* the split call of this state was made for a registered command
SplitOfRegistered ==
  pc = "split" /\ Len(argv) >= 1 /\ argv[1] \in DOMAIN CMD_ATTRS
Attr == CMD_ATTRS[argv[1]]
\* number of arguments from index first_key to the end
Trailing == Len(argv) - Attr.first_key
\* the first element as the store sees it, read from the rewrite table
StoreName(n) == IF n \in DOMAIN REWRITE_CMD THEN REWRITE_CMD[n] ELSE n

RECURSIVE Flatten(_)
Flatten(ss) == IF ss = <<>> THEN <<>> ELSE Head(ss) \o Flatten(Tail(ss))

\* C1 (as claimed): for a registered single-key command and any argument
\* vector naming it, the decomposer succeeds, returns the vector unchanged as
\* passthrough and returns no sub-commands.
C1_SingleKeyPassthrough ==
  (SplitOfRegistered /\ SingleKey(Attr))
    => (ret.kind = "Ok" /\ ret.pass = argv /\ ret.subs = <<>>)

Dangling == argv[Attr.first_key + (Trailing \div Attr.step) * Attr.step + 1]

SubCommandsAre(k, prefix) ==
  /\ ret.kind = "Ok" /\ ret.pass = <<>> /\ Len(ret.subs) = k
  /\ \A j \in 1..Len(ret.subs) :
       /\ Len(ret.subs[j]) = Attr.first_key + Attr.step
       /\ SubSeq(ret.subs[j], 1, Attr.first_key) = prefix
  /\ Flatten([j \in 1..Len(ret.subs) |->
                SubSeq(ret.subs[j], Attr.first_key + 1, Len(ret.subs[j]))])
       = SubSeq(argv, Attr.first_key + 1, Len(argv))

\* the vector holds k >= 2 complete key groups
WholeGroups ==
  /\ SplitOfRegistered /\ VariableMultiKey(Attr)
  /\ Trailing % Attr.step = 0 /\ Trailing \div Attr.step >= 2

\* C3 (as claimed): k >= 2 complete key groups give an empty passthrough and
\* exactly k sub-commands in input order, each of length p + s, each starting
\* with the first p elements of the input vector, whose last s elements
\* concatenated are the trailing arguments.
C3_SubCommandsShareInputPrefix ==
  WholeGroups
    => SubCommandsAre(Trailing \div Attr.step, SubSeq(argv, 1, Attr.first_key))

\* C3 (amended): as claimed, except that each sub-command starts with the
\* first p elements of the input vector after argv[0] has been replaced by its
\* rewrite target when it has one (mset -> set, mget -> get).
C3_SubCommandsShareRewrittenPrefix ==
  WholeGroups
    => SubCommandsAre(Trailing \div Attr.step,
                      SubSeq(<<StoreName(argv[1])>> \o Tail(argv), 1, Attr.first_key))

C3_Witness ==
  /\ WholeGroups /\ argv[1] = "mset" /\ Attr.step = 2
  /\ ret.subs = << <<"set", "k", BadUtf8>>, <<"set", BadUtf8, "k">> >>

\* C4 (as claimed): for a keyless, single-key or variable-multi-key command and
\* a non-empty vector naming it, the decomposer always returns a result, and a
\* successful result has exactly one of its two fields non-empty.
C4_ExactlyOneFieldNoAbort ==
  (SplitOfRegistered /\ (Keyless(Attr) \/ SingleKey(Attr) \/ VariableMultiKey(Attr)))
    => /\ ret.kind \in {"Ok", "Err"}
       /\ ret.kind = "Ok" => ((ret.pass = <<>>) # (ret.subs = <<>>))

\* the passthrough conditions of the decomposer, as the claim states them
PassthroughCase ==
  /\ SplitOfRegistered
  /\ \/ Len(argv) <= Attr.first_key + 1
     \/ Trailing <= Attr.step

\* C5 (as claimed): a returned passthrough equals the input vector element for
\* element, also for the commands of the rewrite table.
C5_PassthroughIsInput ==
  PassthroughCase => (ret.kind = "Ok" /\ ret.subs = <<>> /\ ret.pass = argv)

\* C5 (amended): a returned passthrough equals the input vector with argv[0]
\* replaced by its rewrite target when it has one; it equals the input vector
\* element for element for every command without a rewrite entry.
C5_PassthroughIsRewrittenInput ==
  PassthroughCase
    => /\ ret.kind = "Ok" /\ ret.subs = <<>>
       /\ ret.pass = <<StoreName(argv[1])>> \o Tail(argv)
       /\ argv[1] \notin DOMAIN REWRITE_CMD => ret.pass = argv

C5_Witness ==
  /\ PassthroughCase /\ argv[1] = "mset" /\ Len(argv) = 3
  /\ ret.pass = <<"set", "k", "k">>

\* the classifier lists a command is reported in, after main has run
ListsOf(n) ==
  {l \in {"not_supported", "single_key", "optional_multi_key"} :
     \/ l = "not_supported" /\ n \in cmds.not_supported
     \/ l = "single_key" /\ n \in cmds.single_key.v
     \/ l = "optional_multi_key" /\ n \in cmds.optional_multi_key.v}

Accepted == pc = "main" /\ cmds.optional_multi_key.kind = "Ok"

\* C6 (as claimed): in an accepted registry every command has exactly one of
\* the four shapes and is reported in exactly the list of its shape.
C6_ExhaustiveDisjoint ==
  Accepted =>
    \A n \in DOMAIN CMD_ATTRS :
      LET a == CMD_ATTRS[n] IN
        /\ Cardinality({i \in 1..4 :
              \/ i = 1 /\ Keyless(a)
              \/ i = 2 /\ SingleKey(a)
              \/ i = 3 /\ VariableMultiKey(a)
              \/ i = 4 /\ FixedMultiKey(a)}) = 1
        /\ Keyless(a) => ListsOf(n) = {"not_supported"}
        /\ SingleKey(a) => ListsOf(n) = {"single_key"}
        /\ VariableMultiKey(a) => ListsOf(n) = {"optional_multi_key"}
        /\ FixedMultiKey(a) => ListsOf(n) = {"not_supported"}

\* C6 (amended): in an accepted registry every command has exactly one of the
\* shapes keyless, single-key, variable-multi-key, fixed-multi-key with
\* first_key # 0, and is reported in exactly the list of its shape, except the
\* keyless command named "command", which is reported in none.
C6_ExhaustiveDisjointButCommand ==
  Accepted =>
    \A n \in DOMAIN CMD_ATTRS :
      LET a == CMD_ATTRS[n] IN
        /\ Cardinality({i \in 1..4 :
              \/ i = 1 /\ Keyless(a)
              \/ i = 2 /\ SingleKey(a)
              \/ i = 3 /\ VariableMultiKey(a)
              \/ i = 4 /\ FixedMultiKey(a) /\ a.first_key # 0}) = 1
        /\ (Keyless(a) /\ n # "command") => ListsOf(n) = {"not_supported"}
        /\ (Keyless(a) /\ n = "command") => ListsOf(n) = {}
        /\ SingleKey(a) => ListsOf(n) = {"single_key"}
        /\ VariableMultiKey(a) => ListsOf(n) = {"optional_multi_key"}
        /\ (FixedMultiKey(a) /\ a.first_key # 0) => ListsOf(n) = {"not_supported"}

C6_Witness ==
  /\ Accepted /\ "command" \in DOMAIN CMD_ATTRS
  /\ Keyless(CMD_ATTRS["command"]) /\ ListsOf("command") = {}
  /\ ListsOf("append") = {"single_key"}

\* C9: is_write_command answers false if and only if the name is registered
\* with flags exactly "readonly"; every other name gets true.
C9_WriteUnlessReadonly ==
  pc = "is_write"
    => (is_write = FALSE
          <=> (cmd \in DOMAIN CMD_ATTRS /\ CMD_ATTRS[cmd].flags = "readonly"))

C9_Witness ==
  /\ pc = "is_write" /\ cmd \in DOMAIN CMD_ATTRS
  /\ CMD_ATTRS[cmd].flags = "readonly" /\ is_write = FALSE

\* C10 (as claimed): for a registered command with step >= 1, the key-count
\* check accepts a vector if and only if the decomposer passes it through, and
\* rejects it with "must have only one key" exactly when the decomposer splits
\* it or fails with MalformedArguments.
C10_CheckAgreesWithSplit ==
  (pc = "check" /\ cmd \in DOMAIN CMD_ATTRS /\ CMD_ATTRS[cmd].step >= 1)
    => LET s == split_multikeys_command(argv) IN
       /\ ret.kind = "Ok" <=> (s.kind = "Ok" /\ s.subs = <<>>)
       /\ (ret.kind = "Err" /\ ret.err = "OnlyOneKey")
            <=> \/ s.kind = "Ok" /\ s.subs # <<>>
                \/ s.kind = "Err" /\ s.err = "MalformedArguments"

(* ------------------------------ actions -------------------------------- *)
Init ==
  /\ CMD_ATTRS \in Registries
  /\ pc = "idle"
  /\ argv = <<>>
  /\ cmd = ""
  /\ ret = NoRet
  /\ is_write = TRUE
  /\ cmds = NoCmds
  /\ mix = NoMix
  /\ txn = "None"
  /\ calls = <<>>
  /\ txn_ops = <<>>
  /\ response = NoResult

Split ==
  /\ pc = "idle"
  /\ \E multi \in Argvs :
       /\ argv' = multi
       /\ ret' = split_multikeys_command(multi)
  /\ pc' = "split"
  /\ UNCHANGED <<CMD_ATTRS, cmd, is_write, cmds>>
  /\ UNCHANGED mixVars

\* the per-request check, called with the command name of the vector
CheckArguments ==
  /\ pc = "idle"
  /\ \E multi \in Argvs :
       /\ Len(multi) > 0
       /\ from_utf8(multi[1]).ok
       /\ argv' = multi
       /\ cmd' = from_utf8(multi[1]).s
       /\ ret' = check_multikey_command_arguments(from_utf8(multi[1]).s, multi)
  /\ pc' = "check"
  /\ UNCHANGED <<CMD_ATTRS, is_write, cmds>>
  /\ UNCHANGED mixVars

IsWrite ==
  /\ pc = "idle"
  /\ \E c \in DOMAIN CMD_ATTRS \cup AddedNames \cup {"unknownverb"} :
       /\ cmd' = c
       /\ is_write' = is_write_command(c)
  /\ pc' = "is_write"
  /\ UNCHANGED <<CMD_ATTRS, argv, ret, cmds>>
  /\ UNCHANGED mixVars

\* main: the three classifier queries; unwrap panics on Err
Main ==
  /\ pc = "idle"
  /\ cmds' = [not_supported |-> get_not_supported_cmds,
              single_key |-> get_single_key_cmds,
              optional_multi_key |-> get_optional_multi_key_cmds,
              panicked |-> get_optional_multi_key_cmds.kind = "Err"]
  /\ pc' = "main"
  /\ UNCHANGED <<CMD_ATTRS, argv, cmd, ret, is_write>>
  /\ UNCHANGED mixVars

\* the call has returned: the next request starts from a clean slate
Return ==
  /\ pc \in {"split", "check", "is_write", "main"}
  /\ pc' = "idle"
  /\ argv' = <<>>
  /\ cmd' = ""
  /\ ret' = NoRet
  /\ is_write' = TRUE
  /\ cmds' = NoCmds
  /\ UNCHANGED CMD_ATTRS
  /\ UNCHANGED mixVars

Next == Split \/ CheckArguments \/ IsWrite \/ Main \/ Return

Spec == Init /\ [][Next]_vars

(* ------------------------ actions of a Mix request --------------------- *)
MixInit ==
  /\ CMD_ATTRS = SourceAttrs
  /\ pc = "idle"
  /\ argv = <<>>
  /\ cmd = ""
  /\ ret = NoRet
  /\ is_write = TRUE
  /\ cmds = NoCmds
  /\ mix = NoMix
  /\ txn = "None"
  /\ calls = <<>>
  /\ txn_ops = <<>>
  /\ response = NoResult

\* the command name has been read off the frame; the rest are the keys
ParseFrames ==
  /\ pc = "idle"
  /\ \E c \in MixCmds, parts \in SeqsUpTo(KeyStrings, MaxKeys) :
       mix' = parse_frames(c, [frame |-> <<c>> \o parts, rest |-> parts])
  /\ pc' = "parsed"
  /\ UNCHANGED <<CMD_ATTRS, txn, calls, txn_ops, response>>
  /\ UNCHANGED attrVars

ParseArgv ==
  /\ pc = "idle"
  /\ \E av \in SeqsUpTo(Args, MaxKeys) :
       /\ argv' = av
       /\ mix' = parse_argv(av)
  /\ pc' = "parsed"
  /\ UNCHANGED <<CMD_ATTRS, cmd, ret, is_write, cmds, txn, calls, txn_ops, response>>

\* redis_command called by a caller that may hold a transaction
RedisCommand ==
  /\ pc = "parsed"
  /\ \E t \in Handles, o \in Outcomes :
       /\ txn' = t
       /\ response' = redis_command(mix, t, o).result
       /\ calls' = calls \o redis_command(mix, t, o).calls
  /\ pc' = "executed"
  /\ UNCHANGED <<CMD_ATTRS, mix, txn_ops>>
  /\ UNCHANGED attrVars

\* apply: redis_command(None), an error turned into an error frame, the
\* response written to the connection (which may fail)
Apply ==
  /\ pc = "parsed"
  /\ \E o \in Outcomes, written \in BOOLEAN :
       LET r == redis_command(mix, "None", o) IN
         /\ txn' = "None"
         /\ calls' = calls \o r.calls
         /\ response' =
              IF r.result.kind = "Panic" THEN r.result
              ELSE IF ~written THEN [kind |-> "Err", v |-> "write_frame"]
              ELSE [kind |-> "Ok", v |-> IF r.result.kind = "Ok"
                                         THEN "wrote reply" ELSE "wrote error"]
  /\ pc' = "applied"
  /\ UNCHANGED <<CMD_ATTRS, mix, txn_ops>>
  /\ UNCHANGED attrVars

\* the request is over
MixReturn ==
  /\ pc \in {"executed", "applied"}
  /\ pc' = "idle"
  /\ argv' = <<>>
  /\ mix' = NoMix
  /\ txn' = "None"
  /\ calls' = <<>>
  /\ response' = NoResult
  /\ UNCHANGED <<CMD_ATTRS, cmd, ret, is_write, cmds, txn_ops>>

MixNext == ParseFrames \/ ParseArgv \/ RedisCommand \/ Apply \/ MixReturn

MixSpec == MixInit /\ [][MixNext]_vars

\* C7 (as claimed): whatever parse_frames or parse_argv produced, execution
\* ends with a reply or an error value; it never panics.
C7_ExecuteNeverPanics ==
  pc \in {"executed", "applied"} => response.kind \in {"Ok", "Err"}

\* C8 (as claimed): a store call issued by redis_command carries the
\* transaction handle redis_command was given (none when it was given none),
\* and the context opens or commits no transaction.
C8_TxnPassedThrough ==
  pc = "executed"
    => /\ \A i \in 1..Len(calls) : calls[i].txn = txn
       /\ txn_ops = <<>>

====
